---- MODULE Spec2Model ----
(***************************************************************************)
(* Model of app.py, the "Jabar Bansos Analytics" Streamlit dashboard.      *)
(*                                                                         *)
(* A session is a sequence of script runs.  Every run executes app.py from *)
(* top to bottom against the memoized result of load_data() and the        *)
(* current values of the two sidebar widgets; a run ends normally, at      *)
(* st.stop(), or at the first unhandled exception.  One run is one action. *)
(*                                                                         *)
(* Numbers: a float cell holds tenths (9 stands for 0.9); NaN is the       *)
(* missing value of pandas.                                                *)
(***************************************************************************)
EXTENDS Integers, Sequences, FiniteSets, TLC

VARIABLES
    files,          \* content of the two CSV files, as pd.read_csv parses it
    present,        \* which of the two files exist in the working directory
    cache,          \* the st.cache_data entry of load_data()
    widgets,        \* session state of the multiselect and the slider
    out,            \* what the last script run computed and rendered
    diskReads,      \* history: executions of load_data's body (saturates at 2)
    firstLoad,      \* history: what the first call of load_data returned
    missingAtRead,  \* history: the files that were absent when load_data's body ran
    sliderEqualOk,  \* whether this Streamlit build accepts a slider with min = max
    snap            \* history: one earlier completed run, kept for comparison

vars ==
    <<files, present, cache, widgets, out, diskReads, firstLoad, missingAtRead,
      sliderEqualOk, snap>>

----------------------------------------------------------------------------
(* Bounds of the model                                                     *)

MaxTsRows == 2
MaxSpkRows == 2
MaxRankRows == 11
MaxNameRows == 2

(* Program constants                                                       *)

NaN == -1
TopN == 10
DefaultN == 5
RankOne == 1

----------------------------------------------------------------------------
(* pandas reductions and table operations, as app.py uses them             *)

IsNaN(x) == x = NaN

Min2(a, b) == IF a <= b THEN a ELSE b

Column(df, c) == [i \in 1..Len(df) |-> df[i][c]]

NotNa(col) == SelectSeq(col, LAMBDA x : ~IsNaN(x))

RECURSIVE SumSkipNa(_)
\* Series.sum(): skipna=True, the sum of no value is 0
SumSkipNa(col) ==
    IF col = <<>> THEN 0
    ELSE (IF IsNaN(Head(col)) THEN 0 ELSE Head(col)) + SumSkipNa(Tail(col))

\* Series.mean(): skipna=True; n = 0 stands for the NaN mean of no value
Mean(col) == [sum |-> SumSkipNa(col), n |-> Len(NotNa(col))]

\* Series.min() / Series.max(): skipna=True, NaN when there is no value
MinSkipNa(col) ==
    IF NotNa(col) = <<>> THEN NaN
    ELSE CHOOSE m \in {col[i] : i \in 1..Len(col)} \ {NaN} :
             \A i \in 1..Len(col) : IsNaN(col[i]) \/ m <= col[i]

MaxSkipNa(col) ==
    IF NotNa(col) = <<>> THEN NaN
    ELSE CHOOSE m \in {col[i] : i \in 1..Len(col)} \ {NaN} :
             \A i \in 1..Len(col) : IsNaN(col[i]) \/ m >= col[i]

\* Series.idxmin(): label of the first occurrence of the minimum; 0 when
\* every value is missing (no label: .loc then raises)
IdxMin(col) ==
    IF NotNa(col) = <<>> THEN 0
    ELSE CHOOSE i \in 1..Len(col) :
             /\ col[i] = MinSkipNa(col)
             /\ \A j \in 1..(i - 1) : col[j] # MinSkipNa(col)

\* DataFrame.head(n)
HeadRows(df, n) == SubSeq(df, 1, Min2(n, Len(df)))

\* one insertion of the sort: after every row whose Ranking is <= the row's
InsertByRanking(row, sorted) ==
    LET k == Cardinality({i \in 1..Len(sorted) : sorted[i].Ranking <= row.Ranking})
    IN  SubSeq(sorted, 1, k) \o <<row>> \o SubSeq(sorted, k + 1, Len(sorted))

RECURSIVE SortValuesDesc(_)
\* faulty variant: the sort with ascending=False
SortValuesDesc(df) ==
    IF df = <<>> THEN <<>>
    ELSE LET rest == SortValuesDesc(SubSeq(df, 1, Len(df) - 1))
             row  == df[Len(df)]
             k    == Cardinality({i \in 1..Len(rest) : rest[i].Ranking >= row.Ranking})
         IN  SubSeq(rest, 1, k) \o <<row>> \o SubSeq(rest, k + 1, Len(rest))

\* DataFrame.sort_values('Ranking'): ascending; numpy sorts tables of at most
\* 16 rows by insertion, which keeps equal keys in table order
RECURSIVE SortValues(_)
SortValues(df) ==
    IF df = <<>> THEN <<>>
    ELSE InsertByRanking(df[Len(df)], SortValues(SubSeq(df, 1, Len(df) - 1)))

----------------------------------------------------------------------------
(* CSV text.  A text is a sequence of one-character strings.               *)

Comma == ","
Quote == "\""
Newline == "\n"
Dot == "."

DigitChars == <<"0", "1", "2", "3", "4", "5", "6", "7", "8", "9">>

\* the characters of the strings that occur as cell values and column names
StrChars(s) ==
    CASE s = "A" -> <<"A">>
      [] s = "B" -> <<"B">>
      [] s = "A,B" -> <<"A", ",", "B">>
      [] s = "A\"B" -> <<"A", "\"", "B">>
      [] s = "\"A\"" -> <<"\"", "A", "\"">>
      [] s = "A\nB" -> <<"A", "\n", "B">>
      [] s = "Wilayah" -> <<"W", "i", "l", "a", "y", "a", "h">>
      [] s = "Ranking" -> <<"R", "a", "n", "k", "i", "n", "g">>
      [] s = "Skor_TOPSIS" -> <<"S", "k", "o", "r", "_", "T", "O", "P", "S", "I", "S">>
      [] s = "C1_Volume" -> <<"C", "1", "_", "V", "o", "l", "u", "m", "e">>
      [] s = "C2_Efektivitas" ->
             <<"C", "2", "_", "E", "f", "e", "k", "t", "i", "v", "i", "t", "a", "s">>
      [] s = "C3_Tren_Pertumbuhan" ->
             <<"C", "3", "_", "T", "r", "e", "n", "_",
               "P", "e", "r", "t", "u", "m", "b", "u", "h", "a", "n">>
      [] s = "C4_Stabilitas" ->
             <<"C", "4", "_", "S", "t", "a", "b", "i", "l", "i", "t", "a", "s">>

KnownStrings ==
    { "A", "B", "A,B", "A\"B", "\"A\"", "A\nB", "Wilayah", "Ranking", "Skor_TOPSIS",
      "C1_Volume", "C2_Efektivitas", "C3_Tren_Pertumbuhan", "C4_Stabilitas" }

\* the columns of hasil_spk_topsis.csv, in file order, and their dtypes
SpkColumns ==
    << "Wilayah", "Ranking", "Skor_TOPSIS", "C1_Volume",
       "C2_Efektivitas", "C3_Tren_Pertumbuhan", "C4_Stabilitas" >>

SpkDtypes == << "object", "int64", "float64", "int64", "float64", "float64", "float64" >>

RECURSIVE IntText(_)
\* str(int)
IntText(n) ==
    IF n < 10 THEN <<DigitChars[n + 1]>>
    ELSE IntText(n \div 10) \o <<DigitChars[(n % 10) + 1]>>

\* repr(float) of a value in tenths; a missing value is written as nothing
FloatText(t) ==
    IF IsNaN(t) THEN <<>>
    ELSE IntText(t \div 10) \o <<Dot>> \o <<DigitChars[(t % 10) + 1]>>

NeedsQuote(chars) ==
    \E i \in 1..Len(chars) : chars[i] \in {Comma, Quote, Newline}

RECURSIVE DoubleQuotes(_)
DoubleQuotes(chars) ==
    IF chars = <<>> THEN <<>>
    ELSE (IF Head(chars) = Quote THEN <<Quote, Quote>> ELSE <<Head(chars)>>)
         \o DoubleQuotes(Tail(chars))

\* faulty variant: a writer that never quotes (csv.QUOTE_NONE)
FieldTextRaw(chars) == chars

\* csv.QUOTE_MINIMAL: a field holding a delimiter, a quote or a line break is
\* quoted, and its quotes are doubled
FieldText(chars) ==
    IF NeedsQuote(chars) THEN <<Quote>> \o DoubleQuotes(chars) \o <<Quote>>
    ELSE chars

CellText(v, dtype) ==
    CASE dtype = "object" -> FieldText(StrChars(v))
      [] dtype = "int64" -> IntText(v)
      [] dtype = "float64" -> FloatText(v)

RECURSIVE JoinFields(_)
JoinFields(fields) ==
    IF Len(fields) = 0 THEN <<>>
    ELSE IF Len(fields) = 1 THEN fields[1]
    ELSE fields[1] \o <<Comma>> \o JoinFields(Tail(fields))

RECURSIVE JoinLines(_)
JoinLines(lines) ==
    IF lines = <<>> THEN <<>>
    ELSE Head(lines) \o <<Newline>> \o JoinLines(Tail(lines))

CsvHeader ==
    JoinFields([j \in 1..Len(SpkColumns) |-> FieldText(StrChars(SpkColumns[j]))])

\* df_spk.to_csv(index=False): the header line, then one line per row
ToCsv(df) ==
    LET line(i) == JoinFields([j \in 1..Len(SpkColumns) |->
                                  CellText(df[i][SpkColumns[j]], SpkDtypes[j])])
    IN  JoinLines(<<CsvHeader>> \o [i \in 1..Len(df) |-> line(i)])

\* the table as a frame: column names, dtypes and rows of cells; a table
\* without rows has object columns only
Frame(df) ==
    [ ok      |-> TRUE,
      columns |-> SpkColumns,
      dtypes  |-> IF df = <<>> THEN [j \in 1..Len(SpkColumns) |-> "object"] ELSE SpkDtypes,
      data    |-> [i \in 1..Len(df) |-> [j \in 1..Len(SpkColumns) |-> df[i][SpkColumns[j]]]] ]

BadFrame == [ok |-> FALSE, columns |-> <<>>, dtypes |-> <<>>, data |-> <<>>]

\* one step of the tokenizer of the C parser; the state is "start" (of a
\* field), "field", "quoted" or "quote" (a quote met inside a quoted field)
LexStep(st, c) ==
    CASE st = "start" ->
           IF c = Quote THEN "quoted"
           ELSE IF c \in {Comma, Newline} THEN "start" ELSE "field"
      [] st = "field" -> IF c \in {Comma, Newline} THEN "start" ELSE "field"
      [] st = "quoted" -> IF c = Quote THEN "quote" ELSE "quoted"
      [] st = "quote" ->
           IF c = Quote THEN "quoted"
           ELSE IF c \in {Comma, Newline} THEN "start" ELSE "field"

RECURSIVE LexStates(_, _, _, _)
\* the tokenizer's state after each character of text[a..b], entered in st
LexStates(text, st, a, b) ==
    IF a > b THEN <<>>
    ELSE IF a = b THEN <<LexStep(st, text[a])>>
    ELSE LET m     == (a + b) \div 2
             left  == LexStates(text, st, a, m)
             right == LexStates(text, left[Len(left)], m + 1, b)
         IN  left \o right

\* the elements of a set of numbers, ascending
Ascending(S) ==
    [k \in 1..Cardinality(S) |-> CHOOSE i \in S : Cardinality({j \in S : j <= i}) = k]

\* the spans <<first, last>> that the separators at seps cut a..b into
Spans(a, b, seps) ==
    [m \in 1..(Len(seps) + 1) |->
        << IF m = 1 THEN a ELSE seps[m - 1] + 1,
           IF m = Len(seps) + 1 THEN b ELSE seps[m] - 1 >>]

\* the tokenizer: the lines of a text, each a sequence of fields; separators
\* inside quotes belong to the field, blank lines are skipped, a quoted field
\* still open at the end of the text is an error
Lex(text) ==
    LET n      == Len(text)
        post   == LexStates(text, "start", 1, n)
        pre(i) == IF i = 1 THEN "start" ELSE post[i - 1]
        isSep(i, c)  == text[i] = c /\ pre(i) # "quoted"
        isContent(i) ==
            /\ ~isSep(i, Comma)
            /\ ~isSep(i, Newline)
            /\ ~(text[i] = Quote /\ pre(i) \in {"start", "quoted"})
        ends   == {i \in 1..n : isSep(i, Newline)}
        lines  == SelectSeq(Spans(1, n, Ascending(ends)), LAMBDA sp : sp[1] <= sp[2])
        chars(sp)  == LET idx == Ascending({i \in sp[1]..sp[2] : isContent(i)})
                      IN  [k \in 1..Len(idx) |-> text[idx[k]]]
        fields(sp) == LET cut == Spans(sp[1], sp[2],
                                       Ascending({i \in sp[1]..sp[2] : isSep(i, Comma)}))
                      IN  [m \in 1..Len(cut) |-> chars(cut[m])]
    IN  IF n > 0 /\ post[n] = "quoted" THEN [ok |-> FALSE, rows |-> <<>>]
        ELSE [ok |-> TRUE, rows |-> [k \in 1..Len(lines) |-> fields(lines[k])]]

DigitSet == {DigitChars[d] : d \in 1..Len(DigitChars)}

DigitVal(c) == (CHOOSE d \in 1..Len(DigitChars) : DigitChars[d] = c) - 1

IsDigits(f) == f # <<>> /\ \A k \in 1..Len(f) : f[k] \in DigitSet

\* digits, a dot and one more digit: the floats of the model (tenths)
IsFloatText(f) ==
    /\ Len(f) >= 3
    /\ f[Len(f) - 1] = Dot
    /\ IsDigits(SubSeq(f, 1, Len(f) - 2))
    /\ f[Len(f)] \in DigitSet

RECURSIVE ParseInt(_)
ParseInt(f) ==
    IF f = <<>> THEN 0
    ELSE ParseInt(SubSeq(f, 1, Len(f) - 1)) * 10 + DigitVal(f[Len(f)])

\* the string a field spells; "nan" for the missing value of an object column
UnChars(f) ==
    IF f = <<>> THEN "nan"
    ELSE IF \E s \in KnownStrings : StrChars(s) = f
         THEN CHOOSE s \in KnownStrings : StrChars(s) = f
         ELSE "?"

\* dtype inference of read_csv over the fields of one column
InferDtype(fields) ==
    IF fields = <<>> THEN "object"
    ELSE IF \A k \in 1..Len(fields) : IsDigits(fields[k]) THEN "int64"
    ELSE IF \A k \in 1..Len(fields) :
                fields[k] = <<>> \/ IsDigits(fields[k]) \/ IsFloatText(fields[k])
         THEN "float64"
    ELSE "object"

ConvertField(f, dtype) ==
    CASE dtype = "int64" -> ParseInt(f)
      [] dtype = "float64" ->
             IF f = <<>> THEN NaN
             ELSE IF IsDigits(f) THEN ParseInt(f) * 10
             ELSE ParseInt(SubSeq(f, 1, Len(f) - 2)) * 10 + DigitVal(f[Len(f)])
      [] dtype = "object" -> UnChars(f)

\* pd.read_csv: header line, rows padded to the header's width, one dtype per column
ReadCsv(text) ==
    LET lx == Lex(text)
    IN  IF ~lx.ok \/ lx.rows = <<>> THEN BadFrame
        ELSE
        LET header == lx.rows[1]
            n      == Len(header)
            body   == Tail(lx.rows)
            cell(i, j) == IF j <= Len(body[i]) THEN body[i][j] ELSE <<>>
            dtypes == [j \in 1..n |-> InferDtype([i \in 1..Len(body) |-> cell(i, j)])]
        IN  IF \E i \in 1..Len(body) : Len(body[i]) > n THEN BadFrame
            ELSE [ ok      |-> TRUE,
                   columns |-> [j \in 1..n |-> UnChars(header[j])],
                   dtypes  |-> dtypes,
                   data    |-> [i \in 1..Len(body) |->
                                   [j \in 1..n |-> ConvertField(cell(i, j), dtypes[j])]] ]

----------------------------------------------------------------------------
(* load_data() under @st.cache_data                                        *)

Unset == [state |-> "unset", ts |-> <<>>, spk |-> <<>>]
NoneNone == [state |-> "none", ts |-> <<>>, spk |-> <<>>]

\* the body of load_data: both read_csv calls, or the FileNotFoundError branch
ReadFiles(f, p) ==
    IF p.ts /\ p.spk
    THEN [state |-> "loaded", ts |-> f.ts, spk |-> f.spk]
    ELSE NoneNone

\* faulty variant: a cache that keeps only successful loads
LoadDataRetry(c, f, p) ==
    IF c.state = "loaded"
    THEN [value |-> c, read |-> FALSE]
    ELSE [value |-> ReadFiles(f, p), read |-> TRUE]

\* a call of load_data: the cached value when there is one, else the body
LoadData(c, f, p) ==
    IF c.state # "unset"
    THEN [value |-> c, read |-> FALSE]
    ELSE [value |-> ReadFiles(f, p), read |-> TRUE]

----------------------------------------------------------------------------
(* One run of the script                                                   *)

NoWidgets == [regionsSet |-> FALSE, regions |-> {}, yearsSet |-> FALSE, years |-> <<0, 0>>]

NewPass ==
    [ status |-> "running", faultAt |-> "", rendered |-> {},
      data |-> Unset,
      all_regions |-> {}, selected_regions |-> {},
      min_year |-> 0, max_year |-> 0, selected_years |-> <<0, 0>>,
      df_ts_filtered |-> <<>>,
      total_realisasi_2024 |-> 0,
      avg_eff |-> [sum |-> 0, n |-> 0],
      top_region |-> "", top_score |-> 0,
      stable_region |-> "", stable_value |-> 0,
      fig_line |-> <<>>,
      top_10 |-> <<>>,
      mean_eff |-> [sum |-> 0, n |-> 0], mean_stab |-> [sum |-> 0, n |-> 0],
      csv |-> <<>> ]

NoPass == [NewPass EXCEPT !.status = "none"]

Render(s, e) == [s EXCEPT !.rendered = @ \cup {e}]

Fault(s, at) == [s EXCEPT !.status = "fault", !.faultAt = at]

\* df_ts, df_spk = load_data(); the cached st.error is replayed on every call
LoadStep(s, c) ==
    IF c.state = "none"
    THEN Render([s EXCEPT !.data = c], "error")
    ELSE [s EXCEPT !.data = c]

\* faulty variant: the script without its st.stop() guard
StopGuardOff(s) == s

\* if df_ts is None or df_spk is None: st.stop()
StopGuard(s) ==
    IF s.status = "running" /\ s.data.state = "none"
    THEN [s EXCEPT !.status = "stopped"]
    ELSE s

Wilayahs(df) == {df[i].Wilayah : i \in 1..Len(df)}

\* the sidebar: multiselect of regions (default: top 5 by Ranking) and the
\* year slider (default: the whole range)
Sidebar(s, w, eqOk) ==
    IF s.status # "running" THEN s
    ELSE
    LET df_ts   == s.data.ts
        df_spk  == s.data.spk
        options == Wilayahs(df_ts)
        default == Wilayahs(HeadRows(SortValues(df_spk), DefaultN))
        s1 == [Render(s, "sidebar_title") EXCEPT !.all_regions = options]
        s2 == [Render(s1, "multiselect") EXCEPT
                  !.selected_regions = IF w.regionsSet THEN w.regions ELSE default]
        lo == MinSkipNa(Column(df_ts, "Tahun"))
        hi == MaxSkipNa(Column(df_ts, "Tahun"))
        s3 == [s2 EXCEPT !.min_year = lo, !.max_year = hi]
        s4 == [Render(s3, "slider") EXCEPT
                  !.selected_years = IF w.yearsSet THEN w.years ELSE <<lo, hi>>]
    IN  IF ~(default \subseteq options) THEN Fault(s1, "multiselect")
        ELSE IF df_ts = <<>> THEN Fault(s2, "min_year")
        ELSE IF lo = hi /\ ~eqOk THEN Fault(s3, "slider")
        ELSE s4

\* faulty variant: a mask that excludes the upper year
InRangeStrict(row, R, yrs) ==
    /\ row.Wilayah \in R
    /\ row.Tahun >= yrs[1]
    /\ row.Tahun < yrs[2]

\* the boolean mask of the filter
InFilter(row, R, yrs) ==
    /\ row.Wilayah \in R
    /\ row.Tahun >= yrs[1]
    /\ row.Tahun <= yrs[2]

\* df_ts_filtered = df_ts[mask]
FilterData(s) ==
    IF s.status # "running" THEN s
    ELSE [s EXCEPT !.df_ts_filtered =
             SelectSeq(s.data.ts,
                       LAMBDA row : InFilter(row, s.selected_regions, s.selected_years))]

\* df_ts[df_ts['Tahun'] == max_year]
LastYearRows(s) ==
    SelectSeq(s.data.ts, LAMBDA row : row.Tahun = s.max_year)

\* faulty variant: KPI 1 over the filtered table
Kpi1Filtered(s) ==
    IF s.status # "running" THEN s
    ELSE [Render(s, "kpi1") EXCEPT
             !.total_realisasi_2024 =
                 SumSkipNa(Column(SelectSeq(s.df_ts_filtered,
                                            LAMBDA row : row.Tahun = s.max_year),
                                  "Realisasi"))]

\* faulty variant: a sum that a missing value turns into NaN (skipna=False)
SumAllNaN(col) ==
    IF \E i \in 1..Len(col) : IsNaN(col[i]) THEN NaN
    ELSE SumSkipNa(col)

\* faulty variant: KPI 1 with the propagating sum
Kpi1Strict(s) ==
    IF s.status # "running" THEN s
    ELSE [Render(s, "kpi1") EXCEPT
             !.total_realisasi_2024 = SumAllNaN(Column(LastYearRows(s), "Realisasi"))]

\* KPI 1: total Realisasi of the latest year
Kpi1(s) ==
    IF s.status # "running" THEN s
    ELSE [Render(s, "kpi1") EXCEPT
             !.total_realisasi_2024 = SumSkipNa(Column(LastYearRows(s), "Realisasi"))]

\* KPI 2: mean C2_Efektivitas
Kpi2(s) ==
    IF s.status # "running" THEN s
    ELSE [Render(s, "kpi2") EXCEPT
             !.avg_eff = Mean(Column(s.data.spk, "C2_Efektivitas"))]

\* faulty variant: KPI 3 read from the first row of the table
Kpi3FirstRow(s) ==
    IF s.status # "running" THEN s
    ELSE IF s.data.spk = <<>> THEN Fault(s, "kpi3")
    ELSE [Render(s, "kpi3") EXCEPT !.top_region = s.data.spk[1].Wilayah,
                                   !.top_score = s.data.spk[1].Skor_TOPSIS]

\* KPI 3: .values[0] of the rows with Ranking == 1 (IndexError when none)
Kpi3(s) ==
    IF s.status # "running" THEN s
    ELSE LET best == SelectSeq(s.data.spk, LAMBDA row : row.Ranking = RankOne)
         IN  IF best = <<>> THEN Fault(s, "kpi3")
             ELSE [Render(s, "kpi3") EXCEPT !.top_region = best[1].Wilayah,
                                            !.top_score = best[1].Skor_TOPSIS]

\* KPI 4: the row of the smallest C4_Stabilitas
Kpi4(s) ==
    IF s.status # "running" THEN s
    ELSE LET col == Column(s.data.spk, "C4_Stabilitas")
             i   == IdxMin(col)
         IN  IF i = 0 THEN Fault(s, "kpi4")
             ELSE [Render(s, "kpi4") EXCEPT !.stable_region = s.data.spk[i].Wilayah,
                                            !.stable_value = MinSkipNa(col)]

\* faulty variant: the trend column without its emptiness test
TrendAlways(s) ==
    IF s.status # "running" THEN s
    ELSE [Render(Render(s, "trend_header"), "fig_line") EXCEPT
             !.fig_line = s.df_ts_filtered]

\* the trend column: the line chart, or the warning when nothing is selected
Trend(s) ==
    IF s.status # "running" THEN s
    ELSE IF s.df_ts_filtered # <<>>
         THEN [Render(Render(s, "trend_header"), "fig_line") EXCEPT
                  !.fig_line = s.df_ts_filtered]
         ELSE Render(Render(s, "trend_header"), "warning")

\* the ranking column: top_10 and its bar chart
RankingChart(s) ==
    IF s.status # "running" THEN s
    ELSE [Render(s, "fig_bar") EXCEPT
             !.top_10 = HeadRows(SortValues(s.data.spk), TopN)]

\* the quadrant scatter and its two mean lines
Scatter(s) ==
    IF s.status # "running" THEN s
    ELSE [Render(s, "fig_scatter") EXCEPT
             !.mean_eff = Mean(Column(s.data.spk, "C2_Efektivitas")),
             !.mean_stab = Mean(Column(s.data.spk, "C4_Stabilitas"))]

\* the detail table, the download button and the footer
DetailTable(s) ==
    IF s.status # "running" THEN s
    ELSE [Render(Render(Render(s, "dataframe"), "download_button"), "footer") EXCEPT
             !.csv = ToCsv(s.data.spk), !.status = "done"]

RunScript(c, w, eqOk) ==
    DetailTable(Scatter(RankingChart(Trend(Kpi4(Kpi3(Kpi2(Kpi1(
        FilterData(Sidebar(StopGuard(LoadStep(NewPass, c)), w, eqOk))))))))))

\* widget state survives a run only for the widgets the run rendered
WidgetsAfter(s) ==
    [ regionsSet |-> "multiselect" \in s.rendered,
      regions    |-> IF "multiselect" \in s.rendered THEN s.selected_regions ELSE {},
      yearsSet   |-> "slider" \in s.rendered,
      years      |-> IF "slider" \in s.rendered THEN s.selected_years ELSE <<0, 0>> ]

----------------------------------------------------------------------------
(* Input tables                                                            *)

Regions == {"A", "B"}
Years == {2023, 2024}

\* the disbursement of a region in a year, when the cell is not missing
RealisasiOf(w, y) ==
    CASE w = "A" /\ y = 2023 -> 10
      [] w = "A" /\ y = 2024 -> 20
      [] w = "B" /\ y = 2023 -> 5
      [] w = "B" /\ y = 2024 -> 15

TsRow(w, y, v) == [Wilayah |-> w, Tahun |-> y, Realisasi |-> v]

PlainTsRows == {TsRow(w, y, RealisasiOf(w, y)) : w \in Regions, y \in Years}

TsRows == PlainTsRows \cup {TsRow(w, y, NaN) : w \in Regions, y \in Years}

SeqsUpTo(S, n) == UNION {[1..k -> S] : k \in 0..n}

SpkRow(w, r, score, c1, c2, c4) ==
    [ Wilayah |-> w, Ranking |-> r, Skor_TOPSIS |-> score, C1_Volume |-> c1,
      C2_Efektivitas |-> c2, C3_Tren_Pertumbuhan |-> 15, C4_Stabilitas |-> c4 ]

CanonTs == << TsRow("A", 2023, 10), TsRow("A", 2024, 20),
              TsRow("B", 2023, 5), TsRow("B", 2024, 15) >>

CanonSpk == << SpkRow("A", 1, 9, 100, 600, 20), SpkRow("B", 2, 5, 100, 900, 70) >>

RegionAt(i) == IF i % 2 = 1 THEN "A" ELSE "B"

ScoreAt(i) == IF i = 1 THEN 9 ELSE 5

\* ranking tables that vary region and rank; the first row has the best score
RankCells == [Wilayah : Regions, Ranking : {1, 2}]

RankTable(cs) ==
    [i \in 1..Len(cs) |-> SpkRow(cs[i].Wilayah, cs[i].Ranking, ScoreAt(i), 100, 600, 20)]

\* ranking tables that vary the two reduced criterion columns
CritVals ==
    { [c2 |-> NaN, c4 |-> NaN], [c2 |-> 600, c4 |-> NaN], [c2 |-> NaN, c4 |-> 20],
      [c2 |-> 600, c4 |-> 70], [c2 |-> 900, c4 |-> 20] }

CritTable(cs) ==
    [i \in 1..Len(cs) |->
        SpkRow(RegionAt(i), i, ScoreAt(i), 100, cs[i].c2, cs[i].c4)]

\* long ranking tables: the ranks 1..n rotated by k, ascending or descending,
\* and with p > 0 the rank at p overwritten by its neighbour's (a duplicate
\* and a gap); C1_Volume tells the rows apart
LongRanks(n, k, desc, p) ==
    LET base == [i \in 1..n |->
                    LET r == ((i + k - 1) % n) + 1 IN IF desc THEN n + 1 - r ELSE r]
    IN  [i \in 1..n |-> IF i = p THEN base[(i % n) + 1] ELSE base[i]]

LongTable(n, k, desc, p) ==
    LET ranks == LongRanks(n, k, desc, p)
    IN  [i \in 1..n |-> SpkRow(RegionAt(i), ranks[i], 9, 100 + i, 600, 20)]

LongTables ==
    {LongTable(n, k, desc, p) :
        n \in 0..MaxRankRows, k \in 0..1, desc \in BOOLEAN, p \in 0..MaxRankRows}

\* the short time-series table that goes with them
RankTs == << TsRow("A", 2023, 10), TsRow("B", 2024, 15) >>

\* ranking tables whose region names need quoting in a CSV text
ExportNames == {"A", "A,B", "A\"B", "\"A\"", "A\nB"}

ExportCells ==
    {[Wilayah |-> w, c4 |-> 125] : w \in ExportNames} \cup {[Wilayah |-> "A", c4 |-> NaN]}

ExportTable(cs) ==
    [i \in 1..Len(cs) |-> SpkRow(cs[i].Wilayah, i, 10 - i, 1200 + i, 600, cs[i].c4)]

\* one time-series row per row of a ranking table
TsFor(spk) == [i \in 1..Len(spk) |-> TsRow(spk[i].Wilayah, 2023 + (i % 2), 10 * i)]

\* a time-series table whose years are all the same
OneYear(ts) == ts # <<>> /\ \A i \in 1..Len(ts) : ts[i].Tahun = ts[1].Tahun

InitSession ==
    /\ present = [ts |-> TRUE, spk |-> TRUE]
    /\ cache = Unset
    /\ widgets = NoWidgets
    /\ out = NoPass
    /\ diskReads = 0
    /\ firstLoad = Unset
    /\ missingAtRead = {}
    /\ sliderEqualOk \in (IF OneYear(files.ts) THEN BOOLEAN ELSE {TRUE})
    /\ snap = [taken |-> FALSE, away |-> FALSE, widgets |-> NoWidgets, out |-> NoPass]

Init ==
    /\ \/ files \in [ts : SeqsUpTo(TsRows, MaxTsRows), spk : {CanonSpk}]
       \/ files \in [ts : {CanonTs},
                     spk : {RankTable(cs) : cs \in SeqsUpTo(RankCells, MaxSpkRows)}]
       \/ files \in [ts : {CanonTs},
                     spk : {CritTable(cs) : cs \in SeqsUpTo(CritVals, MaxSpkRows)}]
    /\ InitSession

InitRank ==
    /\ files \in [ts : {RankTs}, spk : LongTables]
    /\ InitSession

InitExport ==
    /\ \E cs \in SeqsUpTo(ExportCells, MaxNameRows) :
          files = [ts |-> TsFor(ExportTable(cs)), spk |-> ExportTable(cs)]
    /\ InitSession

InitStateless ==
    /\ files \in [ts : SeqsUpTo(PlainTsRows, MaxTsRows) \cup {CanonTs}, spk : {CanonSpk}]
    /\ InitSession

----------------------------------------------------------------------------
(* Actions                                                                 *)

\* faulty variant: a filter that narrows the cached table in place
CacheAfterInPlace(value, s) ==
    IF "slider" \in s.rendered THEN [value EXCEPT !.ts = s.df_ts_filtered] ELSE value

\* the cache entry after a run: the run works on its own copy of the cached
\* tables and builds new frames, so the entry is what load_data returned
CacheAfter(value, s) == value

\* one execution of app.py with the widget values w
Run(w) ==
    LET ld == LoadData(cache, files, present)
        s  == RunScript(ld.value, w, sliderEqualOk)
    IN  /\ cache' = CacheAfter(ld.value, s)
        /\ diskReads' = Min2(diskReads + (IF ld.read THEN 1 ELSE 0), 2)
        /\ firstLoad' = IF firstLoad.state = "unset" THEN ld.value ELSE firstLoad
        /\ missingAtRead' = IF ld.read THEN {f \in {"ts", "spk"} : ~present[f]}
                                       ELSE missingAtRead
        /\ out' = s
        /\ widgets' = WidgetsAfter(s)
        /\ snap' = IF snap.taken /\ WidgetsAfter(s) # snap.widgets
                   THEN [snap EXCEPT !.away = TRUE] ELSE snap
        /\ UNCHANGED <<files, present, sliderEqualOk>>

\* the first run of a session, or a rerun that changes no widget
Rerun == Run(widgets)

\* the user edits the region multiselect
ChangeRegions ==
    /\ "multiselect" \in out.rendered
    /\ \E R \in SUBSET out.all_regions :
          /\ R # out.selected_regions
          /\ Run([widgets EXCEPT !.regionsSet = TRUE, !.regions = R])

\* the user moves the year slider
ChangeYears ==
    /\ "slider" \in out.rendered
    /\ \E lo \in out.min_year..out.max_year, hi \in out.min_year..out.max_year :
          /\ lo <= hi
          /\ <<lo, hi>> # out.selected_years
          /\ Run([widgets EXCEPT !.yearsSet = TRUE, !.years = <<lo, hi>>])

\* a file disappears from the working directory
FileRemoved ==
    /\ \E f \in {"ts", "spk"} :
          /\ present[f]
          /\ present' = [present EXCEPT ![f] = FALSE]
    /\ UNCHANGED <<files, cache, widgets, out, diskReads, firstLoad, missingAtRead,
                   sliderEqualOk, snap>>

\* a file is put (back) into the working directory
FileRestored ==
    /\ \E f \in {"ts", "spk"} :
          /\ ~present[f]
          /\ present' = [present EXCEPT ![f] = TRUE]
    /\ UNCHANGED <<files, cache, widgets, out, diskReads, firstLoad, missingAtRead,
                   sliderEqualOk, snap>>

\* history only: remember one finished run and the widget values it ran with
Snapshot ==
    /\ ~snap.taken
    /\ out.status # "none"
    /\ snap' = [taken |-> TRUE, away |-> FALSE, widgets |-> widgets, out |-> out]
    /\ UNCHANGED <<files, present, cache, widgets, out, diskReads, firstLoad, missingAtRead,
                   sliderEqualOk>>

Next == Rerun \/ ChangeRegions \/ ChangeYears \/ FileRemoved \/ FileRestored

NextStateless == Next \/ Snapshot

Spec == Init /\ [][Next]_vars

SpecRank == InitRank /\ [][Next]_vars

SpecExport == InitExport /\ [][Next]_vars

SpecStateless == InitStateless /\ [][NextStateless]_vars

----------------------------------------------------------------------------
(* Properties                                                              *)

\* what the checks below read of the last run
Rendered(e) == e \in out.rendered
FilterRan == Rendered("slider")
Loaded_ts == out.data.ts
Loaded_spk == out.data.spk

CountIn(df, row) == Cardinality({i \in 1..Len(df) : df[i] = row})

RowsOf(df) == {df[i] : i \in 1..Len(df)}

RECURSIVE SumAt(_, _)
\* the sum of the non-missing values of col at the positions in S
SumAt(col, S) ==
    IF S = {} THEN 0
    ELSE LET i == CHOOSE j \in S : TRUE
         IN  (IF col[i] = NaN THEN 0 ELSE col[i]) + SumAt(col, S \ {i})

NonMissing(col) == {i \in 1..Len(col) : col[i] # NaN}

LatestYear(ts) == CHOOSE y \in {ts[i].Tahun : i \in 1..Len(ts)} :
                      \A i \in 1..Len(ts) : ts[i].Tahun <= y

LatestRows(ts) == {i \in 1..Len(ts) : ts[i].Tahun = LatestYear(ts)}

\* C1: the filtered table holds exactly the rows of the loaded time-series
\* table whose Wilayah is selected and whose Tahun lies in [lo, hi], both
\* bounds included, each as often as the table holds it, and no other row.
C1_FilterExact ==
    FilterRan =>
        \A row \in RowsOf(Loaded_ts) \cup RowsOf(out.df_ts_filtered) :
            CountIn(out.df_ts_filtered, row) =
                IF /\ row.Wilayah \in out.selected_regions
                   /\ out.selected_years[1] <= row.Tahun
                   /\ row.Tahun <= out.selected_years[2]
                THEN CountIn(Loaded_ts, row)
                ELSE 0

\* a run whose filter keeps a row on the upper year bound, drops a row for
\* its region and drops a row for its year
C1_Witness ==
    /\ FilterRan
    /\ \E i \in 1..Len(out.df_ts_filtered) :
          out.df_ts_filtered[i].Tahun = out.selected_years[2]
    /\ \E i \in 1..Len(Loaded_ts) : Loaded_ts[i].Wilayah \notin out.selected_regions
    /\ \E i \in 1..Len(Loaded_ts) :
          /\ Loaded_ts[i].Wilayah \in out.selected_regions
          /\ Loaded_ts[i].Tahun < out.selected_years[1]

\* C2: when a file was absent as load_data read the files, the run shows the
\* error, works on (None, None) and stops: nothing but the error is rendered,
\* also when only one of the two files was missing.
C2_MissingFileHalts ==
    missingAtRead # {} =>
        /\ out.data = NoneNone
        /\ out.status = "stopped"
        /\ out.rendered = {"error"}

C2_Witness ==
    /\ missingAtRead = {"spk"}
    /\ out.status = "stopped"

\* C3: the latest-year total is the sum of Realisasi over the rows of the
\* loaded, unfiltered table whose Tahun is its largest Tahun, whatever the
\* widgets select, and no run of the session changes it.
C3_TotalUnfiltered ==
    /\ [](Rendered("kpi1") =>
            out.total_realisasi_2024 =
                SumAt(Column(Loaded_ts, "Realisasi"), LatestRows(Loaded_ts)))
    /\ [][ (Rendered("kpi1") /\ "kpi1" \in out'.rendered) =>
               out'.total_realisasi_2024 = out.total_realisasi_2024 ]_vars

\* the scenario of the specification: only region A selected, total 20 + 15
C3_Witness ==
    /\ Rendered("kpi1")
    /\ Loaded_ts = CanonTs
    /\ out.selected_regions = {"A"}
    /\ out.selected_years = <<2023, 2023>>
    /\ out.total_realisasi_2024 = 35

NonDecreasing(df) == \A i \in 1..(Len(df) - 1) : df[i].Ranking <= df[i + 1].Ranking

Increasing(df) == \A i \in 1..(Len(df) - 1) : df[i].Ranking < df[i + 1].Ranking

DistinctRanks(df) == \A i, j \in 1..Len(df) : i # j => df[i].Ranking # df[j].Ranking

\* C4 as stated: top_10 has min(10, N) rows in strictly increasing Ranking,
\* the rank-1 row first.
C4_Original ==
    Rendered("fig_bar") =>
        /\ Len(out.top_10) = Min2(TopN, Len(Loaded_spk))
        /\ Increasing(out.top_10)
        /\ out.top_10 # <<>> => out.top_10[1].Ranking = RankOne

\* C4: top_10 has min(10, N) rows of the ranking table, in non-decreasing
\* Ranking (strictly increasing when the table's ranks are distinct); no row
\* left out ranks below a row kept, and the first row carries the smallest
\* Ranking of the table.
C4_TopTen ==
    Rendered("fig_bar") =>
        /\ Len(out.top_10) = Min2(TopN, Len(Loaded_spk))
        /\ NonDecreasing(out.top_10)
        /\ DistinctRanks(Loaded_spk) => Increasing(out.top_10)
        /\ \A row \in RowsOf(out.top_10) :
              CountIn(out.top_10, row) <= CountIn(Loaded_spk, row)
        /\ \A row \in RowsOf(Loaded_spk) :
              CountIn(out.top_10, row) < CountIn(Loaded_spk, row) =>
                  \A i \in 1..Len(out.top_10) : out.top_10[i].Ranking <= row.Ranking
        /\ out.top_10 # <<>> =>
              \A i \in 1..Len(Loaded_spk) : out.top_10[1].Ranking <= Loaded_spk[i].Ranking

\* a chart cut from a table of more than ten rows that is not in rank order
C4_Witness ==
    /\ Rendered("fig_bar")
    /\ Len(Loaded_spk) > TopN
    /\ Len(out.top_10) = TopN
    /\ ~NonDecreasing(Loaded_spk)
    /\ DistinctRanks(Loaded_spk)

AfterTrend == {"fig_bar", "fig_scatter", "dataframe", "download_button"}

\* C5: a run that reaches the trend column with an empty filtered table
\* raises nothing there: it shows the warning, builds no line chart and goes
\* on to the ranking chart, the scatter, the table and the download; the
\* line chart is built only from a non-empty filtered table; an empty
\* selection of regions filters every row out.
C5_EmptyFilterNotice ==
    /\ (Rendered("kpi4") /\ out.df_ts_filtered = <<>>) =>
          /\ Rendered("warning") /\ ~Rendered("fig_line")
          /\ out.status = "done"
          /\ AfterTrend \cup {"kpi1", "kpi2", "kpi3", "kpi4"} \subseteq out.rendered
    /\ Rendered("fig_line") =>
          /\ out.df_ts_filtered # <<>>
          /\ out.fig_line = out.df_ts_filtered
          /\ ~Rendered("warning")
    /\ (FilterRan /\ out.selected_regions = {}) => out.df_ts_filtered = <<>>

\* regions are selected, but none of their rows falls in the year range
C5_Witness ==
    /\ Rendered("warning")
    /\ out.selected_regions # {}
    /\ out.status = "done"

C7_LoadedOnce ==
    /\ diskReads <= 1
    /\ firstLoad.state # "unset" =>
          /\ cache = firstLoad
          /\ out.data = firstLoad

\* a session that loaded (None, None), got its files back and ran again on
\* the cached value
C7_Witness ==
    /\ firstLoad = NoneNone
    /\ present.ts /\ present.spk
    /\ out.status = "stopped"
    /\ diskReads = 1

NoRankOne(spk) == \A i \in 1..Len(spk) : spk[i].Ranking # RankOne

\* C8: KPI 3 shows Wilayah and Skor_TOPSIS of the (first) row whose Ranking
\* is 1; a run that reaches KPI 3 on a table without such a row ends there in
\* an exception, and renders no chart, table or download; on the table
\* (A, 1, 0.9), (B, 2, 0.5) it shows A and 0.9.
C8_BestRegion ==
    /\ Rendered("kpi3") =>
          \E i \in 1..Len(Loaded_spk) :
              /\ Loaded_spk[i].Ranking = RankOne
              /\ \A j \in 1..(i - 1) : Loaded_spk[j].Ranking # RankOne
              /\ out.top_region = Loaded_spk[i].Wilayah
              /\ out.top_score = Loaded_spk[i].Skor_TOPSIS
    /\ (Rendered("kpi2") /\ NoRankOne(Loaded_spk)) =>
          /\ out.status = "fault" /\ out.faultAt = "kpi3"
          /\ out.rendered \cap (AfterTrend \cup {"kpi3", "fig_line", "warning"}) = {}
    /\ (Rendered("kpi2") /\ Loaded_spk = CanonSpk) =>
          /\ out.top_region = "A"
          /\ out.top_score = 9

\* a non-empty ranking table without a rank-1 row
C8_Witness ==
    /\ Rendered("kpi2")
    /\ Loaded_spk # <<>>
    /\ NoRankOne(Loaded_spk)
    /\ out.faultAt = "kpi3"

HasNaN(col, S) == \E i \in S : col[i] = NaN

IsNaNMean(m) == m.n = 0

\* C9 as stated: a missing value in the reduced column makes the KPI NaN,
\* and no KPI raises.
C9_Original ==
    /\ (Rendered("kpi1") /\ HasNaN(Column(Loaded_ts, "Realisasi"), LatestRows(Loaded_ts))) =>
          out.total_realisasi_2024 = NaN
    /\ (Rendered("kpi2") /\ HasNaN(Column(Loaded_spk, "C2_Efektivitas"), 1..Len(Loaded_spk))) =>
          IsNaNMean(out.avg_eff)
    /\ (Rendered("kpi3") /\ HasNaN(Column(Loaded_spk, "C4_Stabilitas"), 1..Len(Loaded_spk))) =>
          Rendered("kpi4") /\ out.stable_value = NaN

\* C9: missing values are skipped: the total is the sum and the mean the
\* mean of the values present (0 and NaN when none is), and KPI 4 shows the
\* smallest value present and the first region that has it; only a
\* C4_Stabilitas column without any value makes KPI 4 raise.
C9_NaNSkipped ==
    /\ Rendered("kpi1") =>
          LET col == Column(Loaded_ts, "Realisasi")
          IN  /\ out.total_realisasi_2024 # NaN
              /\ out.total_realisasi_2024 = SumAt(col, LatestRows(Loaded_ts) \cap NonMissing(col))
    /\ Rendered("kpi2") =>
          LET col == Column(Loaded_spk, "C2_Efektivitas")
          IN  /\ out.avg_eff.n = Cardinality(NonMissing(col))
              /\ out.avg_eff.sum = SumAt(col, NonMissing(col))
    /\ Rendered("kpi3") =>
          LET col == Column(Loaded_spk, "C4_Stabilitas")
          IN  IF NonMissing(col) = {}
              THEN out.status = "fault" /\ out.faultAt = "kpi4"
              ELSE /\ Rendered("kpi4")
                   /\ out.stable_value # NaN
                   /\ \A i \in NonMissing(col) : out.stable_value <= col[i]
                   /\ \E i \in NonMissing(col) :
                         /\ col[i] = out.stable_value
                         /\ \A j \in NonMissing(col) : j < i => col[j] > out.stable_value
                         /\ out.stable_region = Loaded_spk[i].Wilayah

\* a latest year with a missing and a present Realisasi
C9_Witness ==
    /\ Rendered("kpi1")
    /\ HasNaN(Column(Loaded_ts, "Realisasi"), LatestRows(Loaded_ts))
    /\ out.total_realisasi_2024 > 0

\* C10: a run that starts from the widget values of an earlier run of the
\* session computes and renders what that run did, whatever happened between
\* the two.
C10_Stateless ==
    (snap.taken /\ widgets = snap.widgets) => out = snap.out

\* the widgets were moved away from the remembered values and back
C10_Witness ==
    /\ snap.taken /\ snap.away
    /\ widgets = snap.widgets
    /\ out.status = "done"
    /\ out.selected_regions # {}

====
